---- MODULE Spec2Model ----
(***************************************************************************)
(* QuickNote Timer (src/src/App.jsx): a React component holding a          *)
(* stopwatch, a note, a list of saved sessions and a theme, persisted in   *)
(* window.localStorage.                                                    *)
(*                                                                         *)
(* JavaScript strings are sequences of one-character strings, so that      *)
(* trim, JSON.stringify and JSON.parse are computed character by           *)
(* character.  JavaScript values are tagged records [t, v].                *)
(*                                                                         *)
(* Scheduling is that of a React 18 root.  An event handler, the render    *)
(* it causes and the effects of that render are one step (updates made in  *)
(* a discrete event are rendered, and their effects run, before the event  *)
(* returns).  At startup the effects of the first render are one step and  *)
(* the render of the updates they queue is a later one: the two are        *)
(* separate tasks, and the page may be closed between them.                *)
(*                                                                         *)
(* The clock (Date.now()) never goes backwards.  localStorage calls throw  *)
(* only in behaviours that start with faulty > 0; Spec has none.           *)
(***************************************************************************)
EXTENDS Integers, Sequences, FiniteSets, TLC

\* ------------------------------------------------------------- bounds
\* The timer is not ticked past MaxSeconds.
MaxSeconds == 2
\* The wall clock is not advanced past MaxClockSteps steps of ClockStepMs.
MaxClockSteps == 4
\* No session is saved while the list already holds MaxSessions.
MaxSessions == 2
\* Under SpecFaults at most MaxFaults operations have localStorage calls throw.
MaxFaults == 1

\* ------------------------------------------------------------- JavaScript values
Undefined == [t |-> "undefined"]
Null == [t |-> "null"]
Num(n) == [t |-> "number", v |-> n]
Str(s) == [t |-> "string", v |-> s]
Arr(xs) == [t |-> "array", v |-> xs]
\* An object is its own properties in insertion order: <<key, value>> pairs.
Obj(ps) == [t |-> "object", v |-> ps]

\* o.k : the own property k of an object, undefined otherwise (strings, numbers
\* and arrays have no property named like a session field).
Get(o, k) ==
  IF o.t = "object" /\ \E i \in 1..Len(o.v) : o.v[i][1] = k
  THEN o.v[CHOOSE i \in 1..Len(o.v) : o.v[i][1] = k][2]
  ELSE Undefined

\* a === b on the values the model holds (primitives compare by value).
StrictEq(a, b) == a.t = b.t /\ (a.t \in {"number", "string"} => a.v = b.v)

\* a value used as a condition: null, undefined, "" and 0 are falsy.
Truthy(a) ==
  CASE a.t \in {"undefined", "null"} -> FALSE
    [] a.t = "string" -> a.v # <<>>
    [] a.t = "number" -> a.v # 0
    [] OTHER -> TRUE

\* ------------------------------------------------------------- string literals
S_dark == <<"d", "a", "r", "k">>
S_light == <<"l", "i", "g", "h", "t">>
S_untitled ==
  <<"U", "n", "t", "i", "t", "l", "e", "d", " ", "s", "e", "s", "s", "i", "o", "n">>
K_id == <<"i", "d">>
K_note == <<"n", "o", "t", "e">>
K_durationSeconds ==
  <<"d", "u", "r", "a", "t", "i", "o", "n", "S", "e", "c", "o", "n", "d", "s">>
K_createdAt == <<"c", "r", "e", "a", "t", "e", "d", "A", "t">>

Digits == <<"0", "1", "2", "3", "4", "5", "6", "7", "8", "9">>
DigitSet == {Digits[i] : i \in 1..10}
DigitVal(c) == (CHOOSE i \in 1..10 : Digits[i] = c) - 1

\* String(n) for a non-negative integer n.
RECURSIVE NumToChars(_)
NumToChars(n) ==
  IF n < 10 THEN <<Digits[n + 1]>>
  ELSE NumToChars(n \div 10) \o <<Digits[(n % 10) + 1]>>

\* String(n).padStart(w, "0")
RECURSIVE PadStart(_, _)
PadStart(s, w) == IF Len(s) >= w THEN s ELSE PadStart(<<"0">> \o s, w)

\* ------------------------------------------------------------- JSON.stringify
\* Variant: no character is escaped.
Escape_None(s) == s
\* A string in quotes, with the quote and the backslash escaped.
RECURSIVE Escape(_)
Escape(s) ==
  IF s = <<>> THEN <<>>
  ELSE (IF Head(s) \in {"\"", "\\"} THEN <<"\\", Head(s)>> ELSE <<Head(s)>>)
       \o Escape(Tail(s))

Quote(s) == <<"\"">> \o Escape(s) \o <<"\"">>

RECURSIVE JSONstringify(_), StringifyElems(_), StringifyProps(_, _)
\* The elements of an array, comma-separated (undefined is written as null).
StringifyElems(xs) ==
  IF xs = <<>> THEN <<>>
  ELSE (IF Head(xs).t = "undefined" THEN <<"n", "u", "l", "l">>
        ELSE JSONstringify(Head(xs)))
       \o (IF Len(xs) > 1 THEN <<",">> ELSE <<>>)
       \o StringifyElems(Tail(xs))
\* The properties of an object; a property whose value is undefined is left out.
StringifyProps(ps, first) ==
  IF ps = <<>> THEN <<>>
  ELSE IF Head(ps)[2].t = "undefined" THEN StringifyProps(Tail(ps), first)
  ELSE (IF first THEN <<>> ELSE <<",">>)
       \o Quote(Head(ps)[1]) \o <<":">> \o JSONstringify(Head(ps)[2])
       \o StringifyProps(Tail(ps), FALSE)
JSONstringify(x) ==
  CASE x.t = "null" -> <<"n", "u", "l", "l">>
    [] x.t = "number" -> NumToChars(x.v)
    [] x.t = "string" -> Quote(x.v)
    [] x.t = "array" -> <<"[">> \o StringifyElems(x.v) \o <<"]">>
    [] x.t = "object" -> <<"{">> \o StringifyProps(x.v, TRUE) \o <<"}">>

\* ------------------------------------------------------------- JSON.parse
\* A parse result: [ok, val, pos] with pos the index after the value; a
\* SyntaxError is [ok |-> FALSE].
SyntaxError == [ok |-> FALSE, val |-> Undefined, pos |-> 0]
Parsed(x, p) == [ok |-> TRUE, val |-> x, pos |-> p]

At(s, i) == IF i >= 1 /\ i <= Len(s) THEN s[i] ELSE "EOF"

RECURSIVE SkipWs(_, _)
SkipWs(s, i) == IF At(s, i) = " " THEN SkipWs(s, i + 1) ELSE i

\* The characters of a string literal from position i (after the opening quote).
RECURSIVE ParseChars(_, _, _)
ParseChars(s, i, acc) ==
  CASE At(s, i) = "EOF" -> SyntaxError
    [] At(s, i) = "\"" -> Parsed(Str(acc), i + 1)
    [] At(s, i) = "\\" ->
         IF At(s, i + 1) \in {"\"", "\\"}
         THEN ParseChars(s, i + 2, Append(acc, At(s, i + 1)))
         ELSE SyntaxError
    [] OTHER -> ParseChars(s, i + 1, Append(acc, At(s, i)))

\* The digits of a number from position i.
RECURSIVE ParseDigits(_, _, _)
ParseDigits(s, i, acc) ==
  IF At(s, i) \in DigitSet
  THEN ParseDigits(s, i + 1, acc * 10 + DigitVal(At(s, i)))
  ELSE Parsed(Num(acc), i)

\* Sets property k of the pairs ps (a repeated key keeps its place, last value).
PutProp(ps, k, x) ==
  IF \E j \in 1..Len(ps) : ps[j][1] = k
  THEN [j \in 1..Len(ps) |-> IF ps[j][1] = k THEN <<k, x>> ELSE ps[j]]
  ELSE Append(ps, <<k, x>>)

RECURSIVE ParseValue(_, _), ParseElems(_, _, _), ParseProps(_, _, _)
\* After "[" or ",": a value, then "," or "]".
ParseElems(s, i, acc) ==
  LET r == ParseValue(s, i) IN
  IF ~r.ok THEN SyntaxError
  ELSE LET j == SkipWs(s, r.pos) IN
       CASE At(s, j) = "," -> ParseElems(s, j + 1, Append(acc, r.val))
         [] At(s, j) = "]" -> Parsed(Arr(Append(acc, r.val)), j + 1)
         [] OTHER -> SyntaxError
\* After "{" or ",": a string key, ":", a value, then "," or "}".
ParseProps(s, i, acc) ==
  LET k0 == SkipWs(s, i) IN
  IF At(s, k0) # "\"" THEN SyntaxError
  ELSE LET k == ParseChars(s, k0 + 1, <<>>) IN
       IF ~k.ok THEN SyntaxError
       ELSE LET c == SkipWs(s, k.pos) IN
            IF At(s, c) # ":" THEN SyntaxError
            ELSE LET r == ParseValue(s, c + 1) IN
                 IF ~r.ok THEN SyntaxError
                 ELSE LET j == SkipWs(s, r.pos)
                          ps == PutProp(acc, k.val.v, r.val) IN
                      CASE At(s, j) = "," -> ParseProps(s, j + 1, ps)
                        [] At(s, j) = "}" -> Parsed(Obj(ps), j + 1)
                        [] OTHER -> SyntaxError
ParseValue(s, i0) ==
  LET i == SkipWs(s, i0) IN
  CASE At(s, i) = "n" ->
         IF i + 3 <= Len(s) /\ SubSeq(s, i, i + 3) = <<"n", "u", "l", "l">>
         THEN Parsed(Null, i + 4) ELSE SyntaxError
    [] At(s, i) = "\"" -> ParseChars(s, i + 1, <<>>)
    [] At(s, i) = "0" -> Parsed(Num(0), i + 1)
    [] At(s, i) \in DigitSet \ {"0"} -> ParseDigits(s, i, 0)
    [] At(s, i) = "[" ->
         IF At(s, SkipWs(s, i + 1)) = "]"
         THEN Parsed(Arr(<<>>), SkipWs(s, i + 1) + 1)
         ELSE ParseElems(s, i + 1, <<>>)
    [] At(s, i) = "{" ->
         IF At(s, SkipWs(s, i + 1)) = "}"
         THEN Parsed(Obj(<<>>), SkipWs(s, i + 1) + 1)
         ELSE ParseProps(s, i + 1, <<>>)
    [] OTHER -> SyntaxError

\* JSON.parse(text): the value, or a SyntaxError when the text is not one JSON
\* value followed by nothing.
JSONparse(s) ==
  LET r == ParseValue(s, 1) IN
  IF r.ok /\ SkipWs(s, r.pos) = Len(s) + 1 THEN r ELSE SyntaxError


\* ------------------------------------------------------------- String methods
IsSpace(c) == c = " "

\* s.trim()
RECURSIVE TrimStart(_), TrimEnd(_)
TrimStart(s) == IF s # <<>> /\ IsSpace(Head(s)) THEN TrimStart(Tail(s)) ELSE s
TrimEnd(s) ==
  IF s # <<>> /\ IsSpace(s[Len(s)]) THEN TrimEnd(SubSeq(s, 1, Len(s) - 1)) ELSE s
\* Variant: the note is taken as typed.
Trim_None(s) == s
Trim(s) == TrimEnd(TrimStart(s))

\* ------------------------------------------------------------- the clock
\* Variant: a period of 0, so that the callback is due at once.
IntervalMs_Zero == 0
\* setInterval(..., 1000)
IntervalMs == 1000
\* The wall clock advances in steps of half a timer period.
ClockStepMs == IntervalMs \div 2

\* new Date(t).toISOString() for an instant t (in ms since the epoch) of the
\* first minute: "1970-01-01T00:00:SS.mmmZ".
ToISOString(t) ==
  <<"1", "9", "7", "0", "-", "0", "1", "-", "0", "1", "T", "0", "0", ":", "0", "0", ":">>
  \o PadStart(NumToChars((t \div 1000) % 60), 2) \o <<".">>
  \o PadStart(NumToChars(t % 1000), 3) \o <<"Z">>

\* ------------------------------------------------------------- the state
VARIABLES
  seconds,      \* useState(0)
  isRunning,    \* useState(false)
  note,         \* useState("")
  sessions,     \* useState([]): a JavaScript value
  theme,        \* useState("dark")
  store,        \* window.localStorage: key -> null (no item) or a string
  faulty,       \* how many more operations may have localStorage calls throw
  intervals,    \* the outstanding setInterval registrations: [id, due]
  intervalId,   \* the handle the timer effect's cleanup holds (0: none)
  now,          \* Date.now()
  pc,           \* "mounted": first render committed, its effects pending;
                \* "loading": the effects ran, the queued updates not rendered;
                \* "ready"; "crashed": a render threw and React unmounted the tree
  pending,      \* the state updates the load effect queued (undefined: none)
  lastOp,       \* history: the last operation performed
  saved,        \* history: the sessions created by save and not since deleted
  afterClear,   \* history: clearAll was invoked and nothing was saved since
  thrown,       \* history: the localStorage calls that threw in the last
                \* operation that made any
  view          \* what the last render asked for displayed (unrendered: none)

vars ==
  <<seconds, isRunning, note, sessions, theme, store, faulty, intervals,
    intervalId, now, pc, pending, lastOp, saved, afterClear, thrown, view>>
reactState == <<seconds, isRunning, note, sessions, theme>>
\* The history variables are written by the operations and read by none.
history == <<saved, afterClear>>

\* ------------------------------------------------------------- localStorage
\* The localStorage calls of the component, each of which may throw.
StorageCalls == {"getTheme", "getSessions", "setTheme", "setSessions", "removeSessions"}
\* The ways the calls an operation makes may throw.
FaultsOf(calls) == IF faulty > 0 THEN SUBSET calls ELSE {{}}
\* The operations that may still throw after one in which the calls f threw.
FaultsLeft(f) == IF f = {} THEN faulty ELSE faulty - 1
\* The calls that throw during one operation.
Faults == FaultsOf(StorageCalls)

\* Variant: the calls are made outside any try block.
Uncaught_NoTry(f, calls) == f \cap calls
\* The throwing calls among those made that no catch handles: every
\* localStorage call of the component is inside a try block.
Uncaught(f, calls) == {}
\* Where an operation that made these calls leaves the component: an error
\* that escapes an effect or a handler leaves nothing mounted.
AfterCalls(f, calls, next) == IF Uncaught(f, calls) # {} THEN "crashed" ELSE next

\* try { setItem("quicknote_theme", th) } catch {}
PersistTheme(st, th, f) ==
  IF "setTheme" \in f THEN st ELSE [st EXCEPT !.quicknote_theme = Str(th)]

\* Variant: the effect closes over the sessions of the previous render.
PersistSessions_Stale(st, ss, f) ==
  IF "setSessions" \in f THEN st
  ELSE [st EXCEPT !.quicknote_sessions = Str(JSONstringify(sessions))]
\* try { setItem("quicknote_sessions", JSON.stringify(ss)) } catch {}
PersistSessions(st, ss, f) ==
  IF "setSessions" \in f THEN st
  ELSE [st EXCEPT !.quicknote_sessions = Str(JSONstringify(ss))]

\* try { removeItem("quicknote_sessions") } catch {}
RemoveSessions(st, f) ==
  IF "removeSessions" \in f THEN st ELSE [st EXCEPT !.quicknote_sessions = Null]

\* The load effect: the updates it queues, [theme, sessions], undefined where it
\* queues none.  A throw anywhere in the try block skips the rest of the block.
LoadEffect(st, f) ==
  LET storedTheme == st.quicknote_theme
      storedSessions == st.quicknote_sessions
      themeUpdate ==
        IF storedTheme.t = "string" /\ storedTheme.v \in {S_light, S_dark}
        THEN storedTheme ELSE Undefined
      parsed == JSONparse(storedSessions.v)
  IN  IF "getTheme" \in f THEN [theme |-> Undefined, sessions |-> Undefined]
      ELSE IF "getSessions" \in f THEN [theme |-> themeUpdate, sessions |-> Undefined]
      ELSE IF Truthy(storedSessions) /\ parsed.ok
           THEN [theme |-> themeUpdate, sessions |-> parsed.val]
           ELSE [theme |-> themeUpdate, sessions |-> Undefined]

\* ------------------------------------------------------------- rendering
\* Whether the component body throws a TypeError for this sessions state:
\* sessions.reduce needs an array, session.note.toLowerCase() a string note.
RenderThrows(ss) ==
  \/ ss.t # "array"
  \/ \E i \in 1..Len(ss.v) :
       \/ ss.v[i].t \in {"null", "undefined"}
       \/ Get(ss.v[i], K_note).t # "string"

\* Variant: the hours wrap at 24.
Hrs_Wrapped(n) == (n \div 3600) % 24
\* Math.floor(seconds / 3600)
Hrs(n) == n \div 3600
\* Variant: the minutes are not reduced by the hours.
Mins_Whole(n) == n \div 60
\* Math.floor((seconds % 3600) / 60)
Mins(n) == (n % 3600) \div 60
\* seconds % 60
Secs(n) == n % 60
\* String(k).padStart(2, "0")
Field(k) == PadStart(NumToChars(k), 2)
\* `${hrs}:${mins}:${secs}`
formatTime(n) == Field(Hrs(n)) \o <<":">> \o Field(Mins(n)) \o <<":">> \o Field(Secs(n))

\* s.toLowerCase() on the letters A-Z; other characters map to themselves.
UpperCase == <<"A", "B", "C", "D", "E", "F", "G", "H", "I", "J", "K", "L", "M",
               "N", "O", "P", "Q", "R", "S", "T", "U", "V", "W", "X", "Y", "Z">>
LowerCase == <<"a", "b", "c", "d", "e", "f", "g", "h", "i", "j", "k", "l", "m",
               "n", "o", "p", "q", "r", "s", "t", "u", "v", "w", "x", "y", "z">>
ToLowerChar(c) ==
  IF \E i \in 1..Len(UpperCase) : UpperCase[i] = c
  THEN LowerCase[CHOOSE i \in 1..Len(UpperCase) : UpperCase[i] = c]
  ELSE c
toLowerCase(s) == [i \in 1..Len(s) |-> ToLowerChar(s[i])]

\* The lower-case property names every object inherits from Object.prototype
\* with a truthy value: acc[key] finds them on the {} the reduce starts from.
S_constructor == <<"c", "o", "n", "s", "t", "r", "u", "c", "t", "o", "r">>
S_proto == <<"_", "_", "p", "r", "o", "t", "o", "_", "_">>
InheritedKeys == {S_constructor, S_proto}

\* taskStatsMap as a sequence of <<key, group>> in creation order (its own
\* properties).  HasOwn: the key is one of them.
HasOwn(acc, key) == \E i \in 1..Len(acc) : acc[i][1] = key
\* One step of the reduce.  !acc[key] is false for an own group and for an
\* inherited key; for an inherited key the two += land on the inherited object
\* and acc gets no property.
ReduceStep(acc, session) ==
  LET key == toLowerCase(Get(session, K_note).v)
      dur == Get(session, K_durationSeconds).v
  IN  IF HasOwn(acc, key)
      THEN [i \in 1..Len(acc) |->
              IF acc[i][1] = key
              THEN <<key, [acc[i][2] EXCEPT !.totalSeconds = @ + dur, !.count = @ + 1]>>
              ELSE acc[i]]
      ELSE IF key \in InheritedKeys THEN acc
      ELSE Append(acc, <<key, [name |-> Get(session, K_note).v,
                               totalSeconds |-> 0 + dur, count |-> 0 + 1]>>)
RECURSIVE Reduce(_, _)
Reduce(acc, xs) == IF xs = <<>> THEN acc ELSE Reduce(ReduceStep(acc, Head(xs)), Tail(xs))
taskStatsMap(xs) == Reduce(<<>>, xs)

\* Object.values lists the array-index keys first, in ascending order, then the
\* other keys in creation order.
RECURSIVE CharsToNum(_)
CharsToNum(s) ==
  IF s = <<>> THEN 0 ELSE 10 * CharsToNum(SubSeq(s, 1, Len(s) - 1)) + DigitVal(s[Len(s)])
IsIndexKey(k) ==
  /\ k # <<>>
  /\ \A i \in 1..Len(k) : k[i] \in DigitSet
  /\ Len(k) = 1 \/ k[1] # "0"
  /\ Len(k) <= 9
RECURSIVE SortByIndex(_)
SortByIndex(es) ==
  IF es = <<>> THEN <<>>
  ELSE LET m == CHOOSE i \in 1..Len(es) :
                  \A j \in 1..Len(es) : CharsToNum(es[i][1]) <= CharsToNum(es[j][1])
       IN  <<es[m]>> \o SortByIndex(SubSeq(es, 1, m - 1) \o SubSeq(es, m + 1, Len(es)))
ObjectValues(acc) ==
  LET ordered == SortByIndex(SelectSeq(acc, LAMBDA e : IsIndexKey(e[1])))
                 \o SelectSeq(acc, LAMBDA e : ~IsIndexKey(e[1]))
  IN  [i \in 1..Len(ordered) |-> ordered[i][2]]

\* a / b for naturals, b > 0, as the whole part q and the rest r / d.
Quotient(a, b) == [q |-> a \div b, r |-> a % b, d |-> b]
\* taskStats: every group with its averageSeconds.
taskStats(xs) ==
  LET groups == ObjectValues(taskStatsMap(xs)) IN
  [i \in 1..Len(groups) |->
     [name |-> groups[i].name,
      totalSeconds |-> groups[i].totalSeconds,
      count |-> groups[i].count,
      averageSeconds |-> Quotient(groups[i].totalSeconds, groups[i].count)]]

\* What a render shows of the timer and of the task averages.
Rendered(secs, ss) == [t |-> "rendered", time |-> formatTime(secs), stats |-> taskStats(ss.v)]

\* ------------------------------------------------------------- the timer effect
FreshHandle(ivs) ==
  CHOOSE h \in 1..(Cardinality(ivs) + 1) : \A iv \in ivs : iv.id # h

\* Variant: the effect has no dependency list and no cleanup, so every commit
\* of a running timer registers an interval.
TimerEffect_EveryCommit(was, is, ivs, ivId, t) ==
  IF is
  THEN [intervals |-> ivs \cup {[id |-> FreshHandle(ivs), due |-> t + IntervalMs]},
        intervalId |-> FreshHandle(ivs)]
  ELSE [intervals |-> {iv \in ivs : iv.id # ivId}, intervalId |-> 0]
\* Variant: the effect returns no cleanup, so no interval is ever cleared.
TimerEffect_NoCleanup(was, is, ivs, ivId, t) ==
  IF was = is THEN [intervals |-> ivs, intervalId |-> ivId]
  ELSE IF is
       THEN [intervals |-> ivs \cup {[id |-> FreshHandle(ivs), due |-> t + IntervalMs]},
             intervalId |-> FreshHandle(ivs)]
       ELSE [intervals |-> ivs, intervalId |-> 0]
\* The timer effect on a commit where isRunning went from was to is: the cleanup
\* of the previous run clears its interval, the new run registers one.
TimerEffect(was, is, ivs, ivId, t) ==
  IF was = is THEN [intervals |-> ivs, intervalId |-> ivId]
  ELSE LET cleared == IF was THEN {iv \in ivs : iv.id # ivId} ELSE ivs IN
       IF is
       THEN [intervals |-> cleared \cup {[id |-> FreshHandle(cleared), due |-> t + IntervalMs]},
             intervalId |-> FreshHandle(cleared)]
       ELSE [intervals |-> cleared, intervalId |-> 0]

\* ------------------------------------------------------------- construction
S_blue == <<"b", "l", "u", "e">>
\* A well-formed persisted list of an earlier run, and malformed ones.
T_valid ==
  JSONstringify(Arr(<<Obj(<< <<K_id, Num(0)>>, <<K_note, Str(<<"A">>)>>,
                         <<K_durationSeconds, Num(1)>>,
                         <<K_createdAt, Str(ToISOString(0))>> >>)>>))
PersistedSessions ==
  { Null,                                   \* no item
    Str(<<>>),                              \* ""
    Str(<<"[", "{">>),                      \* not JSON
    Str(<<"n", "u", "l", "l">>),            \* null
    Str(<<"{", "}">>),                      \* {}
    Str(<<"[", "n", "u", "l", "l", "]">>),  \* [null]
    Str(<<"[", "{", "}", "]">>),            \* [{}]
    Str(<<"[", "{", "\"", "n", "o", "t", "e", "\"", ":", "\"", "x", "\"", "}", "]">>),
    Str(T_valid) }
PersistedThemes == {Null, Str(S_light), Str(S_blue)}

InitReact ==
  /\ seconds = 0
  /\ isRunning = FALSE
  /\ note = <<>>
  /\ sessions = Arr(<<>>)
  /\ theme = S_dark

InitPage ==
  /\ InitReact
  /\ intervals = {}
  /\ intervalId = 0
  /\ pc = "mounted"
  /\ pending = [theme |-> Undefined, sessions |-> Undefined]

Unrendered == [t |-> "unrendered"]

InitHistory ==
  /\ lastOp = "init"
  /\ saved = {}
  /\ afterClear = FALSE
  /\ thrown = {}
  /\ view = Unrendered

Init ==
  /\ InitPage
  /\ now = 0
  /\ InitHistory
  /\ faulty = 0
  /\ \E th \in PersistedThemes, ss \in PersistedSessions :
       /\ th = Null \/ ss \in {Null, Str(T_valid)}
       /\ store = [quicknote_theme |-> th, quicknote_sessions |-> ss]

\* The same component where localStorage calls may throw, over no item, a
\* stored list or a stored theme.
InitFaults ==
  /\ InitPage
  /\ now = 0
  /\ InitHistory
  /\ faulty = MaxFaults
  /\ \E th \in {Null, Str(S_light)}, ss \in {Null, Str(T_valid)} :
       /\ th = Null \/ ss = Null
       /\ store = [quicknote_theme |-> th, quicknote_sessions |-> ss]


\* ------------------------------------------------------------- startup
\* The effects of the first render, in declaration order, with the first
\* render's values (theme "dark", sessions [], isRunning false): the load effect
\* queues its updates, the theme effect and the save-sessions effect write the
\* initial values, the timer effect returns at once.
MountEffects ==
  /\ pc = "mounted"
  /\ \E f \in Faults :
       LET q == LoadEffect(store, f)
           queued == (q.theme.t = "string" /\ q.theme.v # theme)
                     \/ q.sessions.t # "undefined"
           calls == IF "getTheme" \in f THEN StorageCalls \ {"getSessions", "removeSessions"}
                    ELSE StorageCalls \ {"removeSessions"}
       IN  /\ pending' = q
           /\ store' = PersistSessions(PersistTheme(store, theme, f), sessions, f)
           /\ pc' = AfterCalls(f, calls, IF queued THEN "loading" ELSE "ready")
           /\ thrown' = f \cap calls
           /\ faulty' = FaultsLeft(f \cap calls)
  /\ lastOp' = "mountEffects"
  /\ UNCHANGED <<reactState, intervals, intervalId, now, history, view>>

\* The render of the updates the load effect queued, and its effects: the theme
\* effect when theme changed, the save-sessions effect when sessions was set.
\* A render that throws leaves nothing mounted.
LoadRender ==
  /\ pc = "loading"
  /\ LET theme1 == IF pending.theme.t = "string" THEN pending.theme.v ELSE theme
         sessions1 == IF pending.sessions.t # "undefined" THEN pending.sessions
                      ELSE sessions
     IN  IF RenderThrows(sessions1)
         THEN /\ pc' = "crashed"
              /\ lastOp' = "renderThrew"
              /\ UNCHANGED <<theme, sessions, store, thrown, faulty>>
         ELSE /\ lastOp' = "loaded"
              /\ theme' = theme1
              /\ sessions' = sessions1
              /\ LET calls == (IF theme1 # theme THEN {"setTheme"} ELSE {})
                              \cup (IF pending.sessions.t # "undefined"
                                    THEN {"setSessions"} ELSE {})
                 IN  \E f \in FaultsOf(calls) :
                       LET st1 == IF theme1 # theme THEN PersistTheme(store, theme1, f)
                                  ELSE store
                       IN  /\ store' = IF pending.sessions.t # "undefined"
                                       THEN PersistSessions(st1, sessions1, f) ELSE st1
                           /\ pc' = AfterCalls(f, calls, "ready")
                           /\ thrown' = f
                           /\ faulty' = FaultsLeft(f)
  /\ pending' = [theme |-> Undefined, sessions |-> Undefined]
  /\ UNCHANGED <<seconds, isRunning, note, intervals, intervalId, now, history, view>>

\* The page is closed and opened again: a new component instance over the same
\* localStorage.
Reload ==
  /\ seconds' = 0
  /\ isRunning' = FALSE
  /\ note' = <<>>
  /\ sessions' = Arr(<<>>)
  /\ theme' = S_dark
  /\ intervals' = {}
  /\ intervalId' = 0
  /\ pc' = "mounted"
  /\ pending' = [theme |-> Undefined, sessions |-> Undefined]
  /\ lastOp' = "reload"
  /\ UNCHANGED <<store, faulty, now, history, thrown, view>>

\* ------------------------------------------------------------- the timer
\* A commit that changes isRunning from its current value to r.
CommitTimer(r) ==
  LET e == TimerEffect(isRunning, r, intervals, intervalId, now) IN
  /\ isRunning' = r
  /\ intervals' = e.intervals
  /\ intervalId' = e.intervalId

handleStart ==
  /\ pc = "ready"
  /\ CommitTimer(TRUE)
  /\ lastOp' = IF isRunning THEN "startWhileRunning" ELSE "start"
  /\ UNCHANGED <<seconds, note, sessions, theme, store, faulty, now, pc, pending, history,
                 thrown, view>>

handlePause ==
  /\ pc = "ready"
  /\ CommitTimer(FALSE)
  /\ lastOp' = "pause"
  /\ UNCHANGED <<seconds, note, sessions, theme, store, faulty, now, pc, pending, history,
                 thrown, view>>

handleReset ==
  /\ pc = "ready"
  /\ CommitTimer(FALSE)
  /\ seconds' = 0
  /\ lastOp' = "reset"
  /\ UNCHANGED <<note, sessions, theme, store, faulty, now, pc, pending, history,
                 thrown, view>>

\* The interval callback of a registration that is due: setSeconds(prev + 1).
Tick ==
  /\ seconds < MaxSeconds
  /\ \E iv \in intervals :
       /\ now >= iv.due
       /\ intervals' = (intervals \ {iv}) \cup {[iv EXCEPT !.due = now + IntervalMs]}
  /\ seconds' = seconds + 1
  /\ lastOp' = "tick"
  /\ UNCHANGED <<isRunning, note, sessions, theme, store, faulty, intervalId, now,
                 pc, pending, history, thrown, view>>

ClockAdvance ==
  /\ now + ClockStepMs <= MaxClockSteps * ClockStepMs
  /\ now' = now + ClockStepMs
  /\ UNCHANGED <<reactState, store, faulty, intervals, intervalId, pc, pending, lastOp,
                 history, thrown, view>>

\* ------------------------------------------------------------- note and sessions
Notes == { <<" ">>, <<" ", "A">>, <<"a">>, <<"\"">> }

\* onChange of the note input
SetNote(n) ==
  /\ pc = "ready"
  /\ note' = n
  /\ lastOp' = "note"
  /\ UNCHANGED <<seconds, isRunning, sessions, theme, store, faulty, intervals,
                 intervalId, now, pc, pending, history, thrown, view>>

\* The session handleSaveSession builds from the note, the timer and the clock.
NewSession(n, secs, t) ==
  LET cleanedNote == IF Trim(n) # <<>> THEN Trim(n) ELSE S_untitled IN
  Obj(<< <<K_id, Num(t)>>,
         <<K_note, Str(cleanedNote)>>,
         <<K_durationSeconds, Num(secs)>>,
         <<K_createdAt, Str(ToISOString(t))>> >>)

\* Variant: the new session goes to the end.
PrependSession_Append(s, prev) == prev \o <<s>>
\* The updater of handleSaveSession: (prev) => [newSession, ...prev]
PrependSession(s, prev) == <<s>> \o prev

\* Variant: no guard.
SaveReturnsEarly_Never(secs) == FALSE
\* The guard of handleSaveSession: if (seconds === 0) return
SaveReturnsEarly(secs) == secs = 0

\* Variant: the timer is left as it is.
SaveResetsTimer_Not == UNCHANGED <<seconds, isRunning, intervals, intervalId>>
\* The end of handleSaveSession: setIsRunning(false); setSeconds(0)
SaveResetsTimer == CommitTimer(FALSE) /\ seconds' = 0

handleSaveSession ==
  /\ pc = "ready"
  /\ Len(sessions.v) < MaxSessions
  /\ IF SaveReturnsEarly(seconds)
     THEN /\ lastOp' = "saveIgnored"
          /\ UNCHANGED <<reactState, store, intervals, intervalId, history, pc, thrown,
                         faulty>>
     ELSE /\ sessions' = Arr(PrependSession(NewSession(note, seconds, now), sessions.v))
          /\ note' = <<>>
          /\ SaveResetsTimer
          /\ \E f \in FaultsOf({"setSessions"}) :
               /\ store' = PersistSessions(store, sessions', f)
               /\ pc' = AfterCalls(f, {"setSessions"}, pc)
               /\ thrown' = f
               /\ faulty' = FaultsLeft(f)
          /\ lastOp' = "save"
          /\ saved' = saved \cup {NewSession(note, seconds, now)}
          /\ afterClear' = FALSE
          /\ UNCHANGED theme
  /\ UNCHANGED <<now, pending, view>>

\* Variant: === for !==, which keeps the matching sessions only.
FilterOut_KeepMatching(xs, id) ==
  SelectSeq(xs, LAMBDA s : StrictEq(Get(s, K_id), id))
\* prev.filter((s) => s.id !== id)
RECURSIVE FilterOut(_, _)
FilterOut(xs, id) ==
  IF xs = <<>> THEN <<>>
  ELSE (IF ~StrictEq(Get(Head(xs), K_id), id) THEN <<Head(xs)>> ELSE <<>>)
       \o FilterOut(Tail(xs), id)

\* An id no session has.
AbsentId == Num(7)
\* The ids delete is invoked with: those of the listed sessions and an absent one.
DeleteIds == {Get(sessions.v[i], K_id) : i \in 1..Len(sessions.v)} \cup {AbsentId}

handleDeleteSession(id) ==
  /\ pc = "ready"
  /\ sessions' = Arr(FilterOut(sessions.v, id))
  /\ \E f \in FaultsOf({"setSessions"}) :
       /\ store' = PersistSessions(store, sessions', f)
       /\ pc' = AfterCalls(f, {"setSessions"}, pc)
       /\ thrown' = f
       /\ faulty' = FaultsLeft(f)
  /\ lastOp' = IF sessions' = sessions THEN "deleteAbsent" ELSE "delete"
  /\ saved' = {s \in saved : ~StrictEq(Get(s, K_id), id)}
  /\ UNCHANGED <<seconds, isRunning, note, theme, intervals, intervalId,
                 now, pending, afterClear, view>>

\* setSessions([]) and removeItem in the handler, then the save-sessions effect
\* of the render that follows (the new array is a new dependency value).
handleClearAll ==
  /\ pc = "ready"
  /\ sessions' = Arr(<<>>)
  /\ \E f \in FaultsOf({"removeSessions", "setSessions"}) :
       /\ store' = PersistSessions(RemoveSessions(store, f), sessions', f)
       /\ pc' = AfterCalls(f, {"removeSessions", "setSessions"}, pc)
       /\ thrown' = f
       /\ faulty' = FaultsLeft(f)
  /\ lastOp' = "clearAll"
  /\ saved' = {}
  /\ afterClear' = TRUE
  /\ UNCHANGED <<seconds, isRunning, note, theme, intervals, intervalId,
                 now, pending, view>>

\* Variant: the updater always answers "light".
ToggledTheme_AlwaysLight(prev) == S_light
\* The updater of toggleTheme: (prev) => (prev === "dark" ? "light" : "dark")
ToggledTheme(prev) == IF prev = S_dark THEN S_light ELSE S_dark

toggleTheme ==
  /\ pc = "ready"
  /\ theme' = ToggledTheme(theme)
  /\ \E f \in FaultsOf({"setTheme"}) :
       /\ store' = PersistTheme(store, theme', f)
       /\ pc' = AfterCalls(f, {"setTheme"}, pc)
       /\ thrown' = f
       /\ faulty' = FaultsLeft(f)
  /\ lastOp' = IF lastOp = "toggleTheme" THEN "toggleThemeAgain" ELSE "toggleTheme"
  /\ UNCHANGED <<seconds, isRunning, note, sessions, intervals, intervalId,
                 now, pending, history, view>>

\* ------------------------------------------------------------- specification
Next ==
  \/ MountEffects
  \/ LoadRender
  \/ Reload
  \/ handleStart
  \/ handlePause
  \/ handleReset
  \/ Tick
  \/ ClockAdvance
  \/ \E n \in Notes : SetNote(n)
  \/ handleSaveSession
  \/ \E id \in DeleteIds : handleDeleteSession(id)
  \/ handleClearAll
  \/ toggleTheme

Spec == Init /\ [][Next]_vars

\* The component over a localStorage whose calls may throw.
\* The operations that reach localStorage or the timer; the note input is left
\* empty, no persistence operation reads it.
NextFaults ==
  \/ MountEffects
  \/ LoadRender
  \/ Reload
  \/ handleStart
  \/ handlePause
  \/ handleReset
  \/ Tick
  \/ ClockAdvance
  \/ handleSaveSession
  \/ \E id \in DeleteIds : handleDeleteSession(id)
  \/ handleClearAll
  \/ toggleTheme

SpecFaults == InitFaults /\ [][NextFaults]_vars


\* ------------------------------------------------------------- one render
\* The timer values and the session lists a single render is observed on.
MaxShownSeconds == 130
MaxListed == 2
S_Read == <<"R", "e", "a", "d">>
S_read == <<"r", "e", "a", "d">>
S_Constructor == <<"C", "o", "n", "s", "t", "r", "u", "c", "t", "o", "r">>
FormatInputs ==
  0..MaxShownSeconds
  \cup {3599, 3600, 3601, 3660, 3661, 86399, 86400, 3600 * 30, 359999, 360000, 3600 * 24 * 30}
StatNotes == {S_Read, S_read, <<"7">>, <<"b">>, S_Constructor}
StatDurations == {1, 60, 120}
\* The lists of at most MaxListed sessions over these notes and durations, with
\* ids that decrease along the list.
RECURSIVE StatLists(_)
StatLists(k) ==
  IF k = 0 THEN {<<>>}
  ELSE StatLists(k - 1) \cup
       { <<Obj(<< <<K_id, Num(Len(xs) + 1)>>, <<K_note, Str(n)>>,
                  <<K_durationSeconds, Num(d)>>,
                  <<K_createdAt, Str(ToISOString(Len(xs) + 1))>> >>)>> \o xs :
           xs \in {ys \in StatLists(k - 1) : Len(ys) = k - 1},
           n \in StatNotes, d \in StatDurations }
StatsInputs == {Arr(xs) : xs \in StatLists(MaxListed)}

\* A mounted component with the timer stopped at n and the list ss, not yet
\* observed.
InitView ==
  /\ \E n \in FormatInputs, ss \in StatsInputs :
       /\ n = 0 \/ ss = Arr(<<>>)
       /\ seconds = n
       /\ sessions = ss
       /\ store = [quicknote_theme |-> Str(S_dark),
                   quicknote_sessions |-> Str(JSONstringify(ss))]
  /\ isRunning = FALSE
  /\ note = <<>>
  /\ theme = S_dark
  /\ intervals = {}
  /\ intervalId = 0
  /\ pc = "ready"
  /\ pending = [theme |-> Undefined, sessions |-> Undefined]
  /\ now = 0
  /\ InitHistory
  /\ faulty = 0

\* One render: the timer display and the task averages of the current state.
RenderView ==
  /\ pc = "ready"
  /\ view = Unrendered
  /\ view' = Rendered(seconds, sessions)
  /\ UNCHANGED <<reactState, store, faulty, intervals, intervalId, now, pc, pending,
                 lastOp, history, thrown>>

SpecView == InitView /\ [][RenderView]_vars

\* ------------------------------------------------------------- properties
IdOf(ss, i) == Get(ss.v[i], K_id)
RemoveAt(xs, i) == SubSeq(xs, 1, i - 1) \o SubSeq(xs, i + 1, Len(xs))
Listed(s) == \E i \in 1..Len(sessions.v) : sessions.v[i] = s
\* The sessions item a load reads back, as the load effect decodes it.
Reloaded(st) == LoadEffect(st, {}).sessions

\* C1: seconds decreases only in reset (and in save and reload, which also
\* zero it), never increases in a step taken while isRunning is false, changes
\* while isRunning is false only by being zeroed, and is left as it is by pause.
C1_TimerMonotone ==
  [][ /\ (seconds' < seconds => handleReset \/ handleSaveSession \/ Reload)
      /\ (~isRunning => seconds' <= seconds)
      /\ (~isRunning /\ seconds' # seconds => seconds' = 0)
      /\ (handlePause => seconds' = seconds) ]_vars
\* Paused at one second, and the clock has run on well past the next period.
C1_Witness ==
  /\ lastOp = "pause"
  /\ seconds = 1
  /\ ~isRunning
  /\ now = MaxClockSteps * ClockStepMs

\* C2: after a successful save seconds is 0, isRunning is false and no interval
\* is registered, and seconds stays 0 for as long as isRunning is false.
C2_SaveResetsTimer ==
  [][ /\ (lastOp' = "save" => seconds' = 0 /\ ~isRunning' /\ intervals' = {})
      /\ (seconds = 0 /\ ~isRunning => seconds' = 0) ]_vars
\* A session was saved, and the clock has run on since.
C2_Witness ==
  /\ lastOp = "save"
  /\ seconds = 0
  /\ ~isRunning
  /\ now > IdOf(sessions, 1).v

\* C3: handleSaveSession at seconds = 0 changes neither the component state nor
\* localStorage, and a session that save adds has durationSeconds >= 1.
C3_SaveAtZeroIsNoOp ==
  [][ /\ (handleSaveSession /\ seconds = 0 =>
            UNCHANGED <<reactState, store, intervals, intervalId, saved>>)
      /\ (handleSaveSession /\ sessions' # sessions =>
            Get(sessions'.v[1], K_durationSeconds).v >= 1)
      /\ \A s \in saved' : Get(s, K_durationSeconds).v >= 1 ]_vars
\* save was invoked at 0 and ignored, with a session already in the list.
C3_Witness ==
  /\ lastOp = "saveIgnored"
  /\ seconds = 0
  /\ Len(sessions.v) >= 1

\* C4: the ids of the listed sessions are pairwise distinct.
C4_IdsDistinct ==
  \A i, j \in 1..Len(sessions.v) :
    i # j => ~StrictEq(IdOf(sessions, i), IdOf(sessions, j))
\* Two sessions saved by this run are listed.
C4_Witness ==
  /\ lastOp = "save"
  /\ Len(sessions.v) >= 2
  /\ Cardinality(saved) >= 2

C6_RoundTrip ==
  pc = "ready" =>
    /\ store.quicknote_sessions.t = "string"
    /\ Reloaded(store) = sessions
\* A list holding a note with a quote in it was loaded back after a reload.
C6_Witness ==
  /\ lastOp = "loaded"
  /\ \E i \in 1..Len(sessions.v) : Get(sessions.v[i], K_note) = Str(<<"\"">>)

\* C7: once clearAll has completed, localStorage holds no sessions item.
C7_ClearAllRemovesItem ==
  lastOp = "clearAll" => store.quicknote_sessions = Null

\* C8: after clearAll, for as long as nothing is saved, every load ends with
\* the empty list of a first run, and none crashes.
C8_ClearThenReloadIsEmpty ==
  afterClear =>
    /\ pc # "crashed"
    /\ pc = "ready" => sessions = Arr(<<>>)
    /\ pc = "loading" => pending.sessions \in {Undefined, Arr(<<>>)}
\* A load after clearAll and a reload has completed.
C8_Witness ==
  /\ afterClear
  /\ lastOp = "loaded"
  /\ pc = "ready"

\* C9: no load crashes the component, and a load ends with a list of sessions
\* that have a string note (the empty list if nothing well-formed was stored).
C9_LoadNeverCrashes ==
  /\ pc # "crashed"
  /\ lastOp = "loaded" =>
       \A i \in 1..Len(sessions.v) :
         /\ IdOf(sessions, i).t = "number"
         /\ Get(sessions.v[i], K_durationSeconds).t = "number"

\* C10: whenever the component is ready, every session that was saved and not
\* since deleted or cleared is in the list.
C10_SavedSessionsSurvive ==
  pc = "ready" => \A s \in saved : Listed(s)

\* The sessions item after handleClearAll where the calls f threw: a call that
\* throws is a call that was not made.
ClearedItem(st, f) ==
  IF "setSessions" \notin f THEN Str(JSONstringify(Arr(<<>>)))
  ELSE IF "removeSessions" \notin f THEN Null
  ELSE st.quicknote_sessions

\* C11: when a write to localStorage throws in save, delete, clearAll or toggle,
\* the handler still makes its in-memory change, the component keeps running,
\* and the item the write was for is left as it was.
C11_WriteFaultsContained ==
  [][ /\ (handleSaveSession /\ seconds > 0 /\ thrown' # {} =>
            /\ pc' = "ready"
            /\ Len(sessions'.v) = Len(sessions.v) + 1
            /\ IdOf(sessions', 1) = Num(now)
            /\ seconds' = 0 /\ ~isRunning'
            /\ store' = store)
      /\ (\A id \in DeleteIds : handleDeleteSession(id) /\ thrown' # {} =>
            /\ pc' = "ready"
            /\ \A i \in 1..Len(sessions'.v) : IdOf(sessions', i) # id
            /\ Len(sessions'.v) >= Len(sessions.v) - 1
            /\ store' = store)
      /\ (handleClearAll /\ thrown' # {} =>
            /\ pc' = "ready"
            /\ sessions' = Arr(<<>>)
            /\ store' = [store EXCEPT !.quicknote_sessions = ClearedItem(store, thrown')])
      /\ (toggleTheme /\ thrown' # {} =>
            /\ pc' = "ready"
            /\ theme' # theme /\ theme' \in {S_dark, S_light}
            /\ store' = store) ]_vars
\* A session was saved while setItem threw: the list holds it, the stored item
\* does not.
C11_Witness ==
  /\ lastOp = "save"
  /\ thrown = {"setSessions"}
  /\ pc = "ready"
  /\ Len(sessions.v) = 1
  /\ store.quicknote_sessions # Str(JSONstringify(sessions))

\* C12: a getItem of the theme that throws during the load leaves the sessions
\* read of the same load as it is without the throw.
C12_ReadsIsolated ==
  [][ MountEffects /\ "getSessions" \notin thrown' =>
        pending'.sessions = LoadEffect(store, {}).sessions ]_vars

\* C13: theme is always "dark" or "light"; a toggle flips it, so two toggles
\* give the theme they started from; and once a toggle has completed the theme
\* item holds exactly the theme in memory.
C13_ToggleTwiceRestores ==
  [][ /\ theme' \in {S_dark, S_light}
      /\ ToggledTheme(ToggledTheme(theme)) = theme
      /\ (toggleTheme =>
            /\ theme' # theme
            /\ store'.quicknote_theme = Str(theme'))
      /\ (toggleTheme /\ store.quicknote_theme = Str(theme) =>
            ToggledTheme(theme') = store.quicknote_theme.v) ]_vars
\* Toggled twice in a row starting at "light": memory and the theme item are
\* back at "light".
C13_Witness ==
  /\ lastOp = "toggleThemeAgain"
  /\ theme = S_light
  /\ store.quicknote_theme = Str(S_light)

\* C14: a save that adds a session puts it at the front, the sessions that
\* were listed follow in the order they had, and the sessions with a numeric
\* id are always listed from the newest to the oldest.
C14_SavePrepends ==
  [][ /\ (handleSaveSession /\ seconds > 0 =>
            /\ Len(sessions'.v) = Len(sessions.v) + 1
            /\ IdOf(sessions', 1) = Num(now)
            /\ Get(sessions'.v[1], K_durationSeconds) = Num(seconds)
            /\ Tail(sessions'.v) = sessions.v)
      /\ \A i, j \in 1..Len(sessions'.v) :
           (i < j /\ IdOf(sessions', i).t = "number" /\ IdOf(sessions', j).t = "number")
             => IdOf(sessions', i).v > IdOf(sessions', j).v ]_vars
\* A session was saved on top of the list an earlier run had persisted.
C14_Witness ==
  /\ lastOp = "save"
  /\ Len(sessions.v) = 2
  /\ IdOf(sessions, 2) = Num(0)
  /\ IdOf(sessions, 1).v > 0
  /\ saved = {sessions.v[1]}

NoteOf(s) == Get(s, K_note).v
AllSpaces(n) == \A i \in 1..Len(n) : n[i] = " "
\* r is n without its leading and trailing spaces.
IsTrimOf(r, n) ==
  /\ r # <<>> /\ r[1] # " " /\ r[Len(r)] # " "
  /\ \E a, b \in 0..Len(n) :
       /\ a + b + Len(r) = Len(n)
       /\ SubSeq(n, a + 1, Len(n) - b) = r
       /\ AllSpaces(SubSeq(n, 1, a)) /\ AllSpaces(SubSeq(n, Len(n) - b + 1, Len(n)))

\* C15: the session a save adds has the note "Untitled session" when the input
\* is empty or all spaces, and the input without its leading and trailing
\* spaces otherwise; no saved session has an empty note.
C15_CleanedNote ==
  [][ /\ (handleSaveSession /\ seconds > 0 =>
            IF AllSpaces(note)
            THEN NoteOf(sessions'.v[1]) = S_untitled
            ELSE IsTrimOf(NoteOf(sessions'.v[1]), note))
      /\ \A s \in saved' : NoteOf(s) # <<>> ]_vars
\* This run saved one session from the input " A" and one from an input with
\* nothing but spaces.
C15_Witness ==
  /\ \E s \in saved : NoteOf(s) = <<"A">>
  /\ \E s \in saved : NoteOf(s) = S_untitled
  /\ Len(sessions.v) = 2

KeyOf(s) == toLowerCase(NoteOf(s))
Members(xs, k) == {i \in 1..Len(xs) : KeyOf(xs[i]) = k}
RECURSIVE SumDurations(_, _)
SumDurations(xs, is) ==
  IF is = {} THEN 0
  ELSE LET i == CHOOSE j \in is : TRUE
       IN  Get(xs[i], K_durationSeconds).v + SumDurations(xs, is \ {i})
First(is) == CHOOSE i \in is : \A j \in is : i <= j
\* g is the group of the key k of the list xs.
IsGroupOf(g, xs, k) ==
  /\ g.name = NoteOf(xs[First(Members(xs, k))])
  /\ g.count = Cardinality(Members(xs, k))
  /\ g.totalSeconds = SumDurations(xs, Members(xs, k))
  /\ g.averageSeconds.d = g.count
  /\ g.averageSeconds.r < g.count
  /\ g.averageSeconds.q * g.count + g.averageSeconds.r = g.totalSeconds

\* C16: the task averages of a rendered list hold one group for every
\* lowercased note of the list and no other group; a group has the count and
\* the sum of durations of the sessions with its key, their quotient as the
\* average, and the note of the first of them as name.  The list Read 60,
\* read 120 gives the one group Read, 2, 180, 90; the empty list gives none.
C16_StatsPerKey ==
  view.t = "rendered" =>
    LET xs == sessions.v
        keys == {KeyOf(xs[i]) : i \in 1..Len(xs)}
    IN  /\ Len(view.stats) = Cardinality(keys)
        /\ \A k \in keys : \E i \in 1..Len(view.stats) : IsGroupOf(view.stats[i], xs, k)
        /\ (xs = <<>> => view.stats = <<>>)
        /\ ((Len(xs) = 2 /\ NoteOf(xs[1]) = S_Read /\ NoteOf(xs[2]) = S_read
             /\ Get(xs[1], K_durationSeconds).v = 60 /\ Get(xs[2], K_durationSeconds).v = 120)
            => view.stats = <<[name |-> S_Read, totalSeconds |-> 180, count |-> 2,
                               averageSeconds |-> [q |-> 90, r |-> 0, d |-> 2]]>>)

T_010101 == <<"0", "1", ":", "0", "1", ":", "0", "1">>
T_000059 == <<"0", "0", ":", "0", "0", ":", "5", "9">>
T_300000 == <<"3", "0", ":", "0", "0", ":", "0", "0">>
T_7200000 == <<"7", "2", "0", ":", "0", "0", ":", "0", "0">>

\* C17 as stated: the display of 3661 is 01:01:01, of 59 is 00:00:59, and of
\* 3600*30 is 720:00:00.
C17_ExamplesAsStated ==
  view.t = "rendered" =>
    /\ (seconds = 3661 => view.time = T_010101)
    /\ (seconds = 59 => view.time = T_000059)
    /\ (seconds = 3600 * 30 => view.time = T_7200000)
\* C17: the display of 3661 is 01:01:01, of 59 is 00:00:59, and of 3600*30 is
\* 30:00:00; 720:00:00 is the display of 3600*24*30.
C17_Examples ==
  view.t = "rendered" =>
    /\ (seconds = 3661 => view.time = T_010101)
    /\ (seconds = 59 => view.time = T_000059)
    /\ (seconds = 3600 * 30 => view.time = T_300000)
    /\ (seconds = 3600 * 24 * 30 => view.time = T_7200000)
\* Thirty hours were rendered.
C17_Witness ==
  /\ view.t = "rendered"
  /\ seconds = 3600 * 30
  /\ view.time = T_300000

RECURSIVE ValueOf(_)
ValueOf(ds) ==
  IF ds = <<>> THEN 0 ELSE 10 * ValueOf(SubSeq(ds, 1, Len(ds) - 1)) + DigitVal(ds[Len(ds)])
AllDigits(ds) == \A i \in 1..Len(ds) : ds[i] \in DigitSet
Colons(t) == {i \in 1..Len(t) : t[i] = ":"}

\* C18: the display of n seconds is HH:MM:SS, three fields of digits with
\* HH = n div 3600 (never wrapped), MM = (n mod 3600) div 60 and SS = n mod 60;
\* MM and SS have two digits, HH has two or, without a leading zero, more;
\* HH*3600 + MM*60 + SS = n and MM, SS < 60.
C18_FieldsOfTime ==
  view.t = "rendered" =>
    LET t == view.time
        c1 == CHOOSE i \in Colons(t) : \A j \in Colons(t) : i <= j
        c2 == CHOOSE i \in Colons(t) : \A j \in Colons(t) : i >= j
        HH == SubSeq(t, 1, c1 - 1)
        MM == SubSeq(t, c1 + 1, c2 - 1)
        SS == SubSeq(t, c2 + 1, Len(t))
    IN  /\ Cardinality(Colons(t)) = 2
        /\ AllDigits(HH) /\ AllDigits(MM) /\ AllDigits(SS)
        /\ Len(MM) = 2 /\ Len(SS) = 2
        /\ Len(HH) >= 2 /\ (Len(HH) > 2 => HH[1] # "0")
        /\ ValueOf(HH) = seconds \div 3600
        /\ ValueOf(MM) = (seconds % 3600) \div 60
        /\ ValueOf(SS) = seconds % 60
        /\ ValueOf(HH) * 3600 + ValueOf(MM) * 60 + ValueOf(SS) = seconds
        /\ ValueOf(MM) < 60 /\ ValueOf(SS) < 60
\* A hundred hours were rendered: the hours field has three digits.
C18_Witness ==
  /\ view.t = "rendered"
  /\ seconds = 360000
  /\ Len(view.time) = 9

\* C19: one interval is registered while isRunning and none while it is not;
\* start on a running timer leaves the registration as it is, pause, reset and
\* a save that adds a session leave none, and the interval callback runs only
\* while isRunning.
C19_OneRegistration ==
  [][ /\ Cardinality(intervals') = (IF isRunning' THEN 1 ELSE 0)
      /\ (handleStart /\ isRunning => intervals' = intervals)
      /\ (handlePause \/ handleReset \/ (handleSaveSession /\ seconds > 0) =>
            intervals' = {})
      /\ (Tick => isRunning /\ Cardinality(intervals) = 1) ]_vars
\* start was invoked on a timer that had already ticked and was still running.
C19_Witness ==
  /\ lastOp = "startWhileRunning"
  /\ isRunning
  /\ seconds >= 1
  /\ Cardinality(intervals) = 1

\* What a load recovers from a store: the list and the theme the component
\* ends with (the initial [] and "dark" where nothing usable is stored).
Recovered(st) ==
  LET q == LoadEffect(st, {}) IN
  [sessions |-> IF q.sessions = Undefined THEN Arr(<<>>) ELSE q.sessions,
   theme |-> IF q.theme = Undefined THEN S_dark ELSE q.theme.v]
ValidStored(st) ==
  /\ st.quicknote_theme \in {Null, Str(S_light), Str(S_dark)}
  /\ st.quicknote_sessions = Null \/ ~RenderThrows(Recovered(st).sessions)

\* C20: the effects of the first render leave in localStorage what a load
\* recovers from it, and the render of the loaded values stores what it loaded.
C20_StartupKeepsStored ==
  [][ /\ (MountEffects /\ ValidStored(store) => Recovered(store') = Recovered(store))
      /\ (LoadRender /\ pc' = "ready" =>
            Recovered(store') = [sessions |-> sessions', theme |-> theme']) ]_vars

====
